---- MODULE Spec2Model ----
(***************************************************************************)
(* Publication pipeline of packages/app/src/thunk.ts (units, aggregates,   *)
(* registry, cancellation, per-endpoint status) and the batch scheduler of *)
(* packages/lib/Worker.ts.                                                 *)
(*                                                                         *)
(* Two collaborators of thunk.ts live outside the files modelled here: the *)
(* TaskQueue that calls processItem and the MultiPublish broadcaster.  They *)
(* are modelled from the specification's description (sections 4.1, 4.2    *)
(* and 6); everything else is a translation of the source.                 *)
(***************************************************************************)
EXTENDS Integers, Sequences, FiniteSets, TLC

\* ------------------------------------------------------------------ bounds

\* Number of publication units (makeThunk calls) a behaviour may create.
MaxUnits == 2

Units == 1..MaxUnits

Endpoints == {"A", "B"}

\* ------------------------------------------------------ PublishStatus kinds

Pending == "pending"
Success == "success"
Failure == "failure"
Timeout == "timeout"
Aborted == "aborted"

TerminalKinds == {Success, Failure, Timeout, Aborted}

\* ThunkStatus: {message, status}
ThunkStatus(kind, msg) == [status |-> kind, message |-> msg]

\* What reading a missing key of a ThunkStatusByUrl yields (s[url] undefined).
Undefined == ThunkStatus("undefined", "")

\* writable({}): the empty ThunkStatusByUrl.
EmptyStatus == [k \in {} |-> Undefined]

\* Messages.  The two literals of the Timeout/Aborted handlers and of the
\* Pending update are the source's; the others stand for arbitrary strings.
SendingMsg == "Sending your message..."
TimedOutMsg == "Publish timed out"
AbortedMsg == "Publish was aborted"
NoSignerMsg == "No signer found for pubkey"
SignErrors == {"signer rejected", "signer unreachable"}
OkMsgs == {"accepted"}
RejectMsgs == {"blocked"}

\* Event identities: the hash of unit u's event, and of its wrapper when the
\* event is an unwrapped rumor.  Distinct requests carry distinct events.
IdNames == <<"e1", "e2", "e3", "e4">>
WrapNames == <<"w1", "w2", "w3", "w4">>
EventId(u) == IdNames[u]
WrapId(u) == WrapNames[u]
Ids == {IdNames[i] : i \in 1..Len(IdNames)}

\* request.event as far as dispatch looks at it: isSignedEvent, isUnwrappedEvent.
EventKinds == {"unsigned", "signed", "wrapped"}

\* ThunkRequest: relays, delay?, timeout?, event.
Request(relays, delay, timeout, event) ==
  [relays |-> relays, delay |-> delay, timeout |-> timeout, event |-> event]

\* The requests publish is called with: every value of every field occurs,
\* and the relay sets overlap, nest and differ.
Requests ==
  { Request({"A", "B"}, FALSE, TRUE, "unsigned"),
    Request({"A", "B"}, TRUE, FALSE, "signed"),
    Request({"A"}, FALSE, FALSE, "wrapped"),
    Request({"B"}, TRUE, TRUE, "unsigned") }

NoRequest == [relays |-> {}, delay |-> FALSE, timeout |-> FALSE, event |-> "signed"]

\* thunk.result: a Deferred, not yet resolved or resolved with a mapping.
Unresolved == [resolved |-> FALSE, value |-> EmptyStatus]
Resolved(v) == [resolved |-> TRUE, value |-> v]

VARIABLES
  \* ---- thunk.ts
  nextUnit,       \* index of the next unit makeThunk creates
  request,        \* thunk.request
  pc,             \* where each unit's dispatch stands
  aborted,        \* thunk.controller.signal.aborted
  status,         \* thunk.status (ThunkStatusByUrl)
  result,         \* thunk.result
  merged,         \* mergedThunk.thunks, keyed by the first member
  mergedAborted,  \* mergedThunk.controller.signal.aborted
  thunks,         \* the registry: event id -> unit or aggregate
  repository,     \* the shared event store: id -> "none" | "unsigned" | "signed"
  tracker,        \* tracker.track(id, url) pairs
  queue,          \* thunkQueue's pending items
  pubOpen,        \* broadcaster: endpoints that still owe a notification
  pubInvoked,     \* whether MultiPublish was constructed for the unit
  \* ---- history
  wasPending      \* the unit's endpoints were set to Pending at some point

VARIABLES
  \* ---- Worker.ts
  buffer,         \* this.buffer
  handlers,       \* this.handlers: key -> handlers in registration order
  timeout,        \* this.timeout: TRUE while it holds a timer id
  timerArmed,     \* a setTimeout(#doWork, 50) is pending
  wpc,            \* #doWork: "idle", "loop" (top of the for) or "await"
  i,              \* the for loop's counter
  message,        \* the item taken by splice(0, 1); 0 outside an iteration
  stage,          \* which handler list is being walked: "any" or "key"
  todo,           \* handlers of that list still to be called
  deferring,      \* the items opts.shouldDefer holds for at this moment
  getKey,         \* whether opts.getKey is configured
  nextItem,       \* the next item a push brings
  \* ---- history
  deferredNow,    \* items deferred since the running cycle started
  handledNow,     \* items passed to a handler since the running cycle started
  clearedNow,     \* clear() was called since the running cycle started
  removedNow,     \* how many times splice(0, 1) ran since the cycle started
  calls,          \* handlers called for the item taken last, in call order
  returned,       \* how many of those calls have returned
  anySnap,        \* the ANY handlers registered when that item was taken
  keySnap,        \* its key's handlers registered when it was taken
  taken,          \* per item, how many times it was taken for its handlers
  dropped,        \* items a clear() removed from the buffer
  cancelled       \* stop() cleared the timer set last, and none was set since

hvars == <<removedNow, calls, returned, anySnap, keySnap, taken, dropped>>

wvars ==
  <<buffer, handlers, timeout, timerArmed, wpc, i, message, stage, todo,
    deferring, getKey, nextItem, deferredNow, handledNow, clearedNow, hvars,
    cancelled>>

tvars ==
  <<nextUnit, request, pc, aborted, status, result, merged, mergedAborted,
    thunks, repository, tracker, queue, pubOpen, pubInvoked, wasPending>>

vars == <<tvars, wvars>>


\* ------------------------------------------------------------ lib helpers

\* assoc(k, v)(m)
Assoc(m, k, v) == [x \in (DOMAIN m) \cup {k} |-> IF x = k THEN v ELSE m[x]]

\* fromPairs(relays.map(url => [url, v]))
FromRelays(relays, v) == [e \in relays |-> v]

Min(S) == CHOOSE x \in S : \A y \in S : x <= y


\* --------------------------------------------------------------- thunk.ts

\* fail() reaching only the first relay of the request.
FailStatusFirstOnly(relays, msg) ==
  FromRelays({CHOOSE e \in relays : TRUE}, ThunkStatus(Failure, msg))

\* The status fail(message) sets: every requested relay Failure, one message.
FailStatus(relays, msg) == FromRelays(relays, ThunkStatus(Failure, msg))

\* The status set before sending: every requested relay Pending.
PendingStatus(relays) == FromRelays(relays, ThunkStatus(Pending, SendingMsg))

\* The event processItem goes on with: the wrapper of an unwrapped rumor,
\* else the unit's own event.  A wrapper is a signed event with its own id.
SendId(u) == IF request[u].event = "wrapped" THEN WrapId(u) ELSE EventId(u)
NeedsSigning(u) == request[u].event = "unsigned"

\* The unit's own abort listener: repository.removeEvent(thunk.event.id).
RemoveEvents(repo, us) ==
  [id \in Ids |-> IF \E u \in us : id = EventId(u) THEN "none" ELSE repo[id]]

\* A unit's abort that also reaches the units merged with it.
SignalUnitAndSiblings(ab, u) ==
  [v \in Units |->
     \/ ab[v]
     \/ v = u
     \/ \E a \in Units :
          {u, v} \subseteq {merged[a][k] : k \in 1..Len(merged[a])}]

\* thunk.controller.abort() for one unit.
SignalUnit(ab, u) == [ab EXCEPT ![u] = TRUE]

\* The aggregate's abort listener: thunk.controller.abort() for every member.
SignalMembers(ab, a) ==
  [u \in Units |-> ab[u] \/ (\E k \in 1..Len(merged[a]) : merged[a][k] = u)]

MemberSet(a) == {merged[a][k] : k \in 1..Len(merged[a])}

\* Units whose token goes from unsignalled to signalled: their listeners run.
NewlySignalled(ab, ab2) == {u \in Units : ~ab[u] /\ ab2[u]}

TInit ==
  /\ nextUnit = 1
  /\ request = [u \in Units |-> NoRequest]
  /\ pc = [u \in Units |-> "none"]
  /\ aborted = [u \in Units |-> FALSE]
  /\ status = [u \in Units |-> EmptyStatus]
  /\ result = [u \in Units |-> Unresolved]
  /\ merged = [u \in Units |-> << >>]
  /\ mergedAborted = [u \in Units |-> FALSE]
  /\ thunks = [id \in Ids |-> << >>]
  /\ repository = [id \in Ids |-> "none"]
  /\ tracker = {}
  /\ queue = << >>
  /\ pubOpen = [u \in Units |-> {}]
  /\ pubInvoked = [u \in Units |-> FALSE]
  /\ wasPending = [u \in Units |-> FALSE]

\* A publishThunks that registers each member unit under its own id.
MergedEntryOwnUnit(a, u) == <<"thunk", u>>

\* thunks.update(assoc(thunk.event.id, mergedThunk)), for member u of aggregate a
MergedEntry(a, u) == <<"merged", a>>

\* A dissoc that removes every key holding the same entry.
DissocSameEntry(reg, id) == [k \in Ids |-> IF reg[k] = reg[id] THEN << >> ELSE reg[k]]

\* thunks.update(dissoc(thunk.event.id))
Dissoc(reg, id) == [reg EXCEPT ![id] = << >>]

\* A continuation that goes on to send whatever the token says.
TokenNotChecked(u) == FALSE

\* if (thunk.controller.signal.aborted) return, after signing and delay
TokenSignalled(u) == aborted[u]

\* A processItem that is async, so that the scheduler awaits the signing and
\* the delay before it takes the next unit.
HoldsSlotWhileAsync(u) == pc[u] \in {"start", "signing", "delay"}

\* processItem is not async: it returns once Promise.resolve().then(...) is
\* set up, and the unit's continuation keeps nothing of the scheduler.
HoldsSlot(u) == FALSE

\* repository.publish(thunk.event): the stored copy, signed or not yet.
Stored(req) == IF req.event = "signed" THEN "signed" ELSE "unsigned"

\* publishThunk(request)
PublishThunk(req) ==
  /\ nextUnit <= MaxUnits
  /\ LET u == nextUnit IN
       /\ nextUnit' = u + 1
       /\ request' = [request EXCEPT ![u] = req]
       /\ pc' = [pc EXCEPT ![u] = "queued"]
       /\ queue' = Append(queue, u)
       /\ repository' = [repository EXCEPT ![EventId(u)] = Stored(req)]
       /\ thunks' = [thunks EXCEPT ![EventId(u)] = <<"thunk", u>>]
  /\ UNCHANGED <<aborted, status, result, merged, mergedAborted, tracker,
                 pubOpen, pubInvoked, wasPending>>
  /\ UNCHANGED wvars

\* publishThunks(requests)
PublishThunks(reqs) ==
  /\ Len(reqs) >= 1
  /\ nextUnit + Len(reqs) - 1 <= MaxUnits
  /\ LET a == nextUnit
         n == Len(reqs)
         new == a..(a + n - 1)
     IN
       /\ nextUnit' = a + n
       /\ request' = [u \in Units |-> IF u \in new THEN reqs[u - a + 1] ELSE request[u]]
       /\ pc' = [u \in Units |-> IF u \in new THEN "queued" ELSE pc[u]]
       /\ merged' = [merged EXCEPT ![a] = [k \in 1..n |-> a + k - 1]]
       /\ queue' = queue \o [k \in 1..n |-> a + k - 1]
       /\ repository' =
            [id \in Ids |->
               IF \E u \in new : id = EventId(u)
                 THEN Stored(reqs[(CHOOSE u \in new : id = EventId(u)) - a + 1])
                 ELSE repository[id]]
       /\ thunks' =
            [id \in Ids |->
               IF \E u \in new : id = EventId(u)
                 THEN MergedEntry(a, CHOOSE u \in new : id = EventId(u))
                 ELSE thunks[id]]
  /\ UNCHANGED <<aborted, status, result, mergedAborted, tracker,
                 pubOpen, pubInvoked, wasPending>>
  /\ UNCHANGED wvars

\* abortThunk(thunk)
AbortThunk(u) ==
  /\ pc[u] # "none"
  /\ aborted' = SignalUnit(aborted, u)
  /\ thunks' = Dissoc(thunks, EventId(u))
  /\ repository' = RemoveEvents(repository, {u} \cup NewlySignalled(aborted, aborted'))
  /\ UNCHANGED <<nextUnit, request, pc, status, result, merged, mergedAborted,
                 tracker, queue, pubOpen, pubInvoked, wasPending>>
  /\ UNCHANGED wvars

\* mergedThunk.controller.abort(): signals the aggregate's token; its abort
\* listener signals every member, whose own listeners remove their events.
AbortMerged(a) ==
  /\ merged[a] # << >>
  /\ mergedAborted' = [mergedAborted EXCEPT ![a] = TRUE]
  /\ aborted' = IF mergedAborted[a] THEN aborted ELSE SignalMembers(aborted, a)
  /\ repository' = RemoveEvents(repository, NewlySignalled(aborted, aborted'))
  /\ UNCHANGED <<nextUnit, request, pc, status, result, merged, thunks,
                 tracker, queue, pubOpen, pubInvoked, wasPending>>
  /\ UNCHANGED wvars

\* The scheduler takes the head of thunkQueue and calls processItem: the
\* synchronous part, up to Promise.resolve().then(...).
Dispatch ==
  /\ queue # << >>
  /\ \A v \in Units : ~HoldsSlot(v)
  /\ LET u == Head(queue) IN
       /\ queue' = Tail(queue)
       /\ pc' = [pc EXCEPT ![u] = IF aborted[u] THEN "skipped" ELSE "start"]
  /\ UNCHANGED <<nextUnit, request, aborted, status, result, merged,
                 mergedAborted, thunks, repository, tracker, pubOpen,
                 pubInvoked, wasPending>>
  /\ UNCHANGED wvars

\* From "Skip publishing if aborted" to the end of the continuation: the
\* token check, the Pending update, the broadcaster's construction and the
\* signature copied to the stored event.
CheckAndSend(u) ==
  IF TokenSignalled(u)
    THEN /\ pc' = [pc EXCEPT ![u] = "stopped"]
         /\ UNCHANGED <<status, pubOpen, pubInvoked, wasPending, repository>>
    ELSE /\ pc' = [pc EXCEPT ![u] = "sent"]
         /\ status' = [status EXCEPT ![u] = PendingStatus(request[u].relays)]
         /\ wasPending' = [wasPending EXCEPT ![u] = TRUE]
         /\ pubInvoked' = [pubInvoked EXCEPT ![u] = TRUE]
         /\ pubOpen' = [pubOpen EXCEPT ![u] = request[u].relays]
         /\ repository' =
              IF SendId(u) \in Ids /\ repository[SendId(u)] # "none"
                THEN [repository EXCEPT ![SendId(u)] = "signed"]
                ELSE repository

\* After signing (or with a signed event): wait out the delay, if any.
AfterSign(u) ==
  IF request[u].delay
    THEN /\ pc' = [pc EXCEPT ![u] = "delay"]
         /\ UNCHANGED <<status, pubOpen, pubInvoked, wasPending, repository>>
    ELSE CheckAndSend(u)

\* The continuation starts with an event that is already signed.
StartSigned(u) ==
  /\ pc[u] = "start"
  /\ ~NeedsSigning(u)
  /\ AfterSign(u)
  /\ UNCHANGED <<nextUnit, request, aborted, result, merged, mergedAborted,
                 thunks, tracker, queue>>
  /\ UNCHANGED wvars

\* getSigner(getSession(event.pubkey)) finds nothing: fail(...) and return.
StartNoSigner(u) ==
  /\ pc[u] = "start"
  /\ NeedsSigning(u)
  /\ status' = [status EXCEPT ![u] = FailStatus(request[u].relays, NoSignerMsg)]
  /\ pc' = [pc EXCEPT ![u] = "failed"]
  /\ UNCHANGED <<nextUnit, request, aborted, result, merged, mergedAborted,
                 thunks, repository, tracker, queue, pubOpen, pubInvoked,
                 wasPending>>
  /\ UNCHANGED wvars

\* A signer exists: await signer.sign(event).
StartSign(u) ==
  /\ pc[u] = "start"
  /\ NeedsSigning(u)
  /\ pc' = [pc EXCEPT ![u] = "signing"]
  /\ UNCHANGED <<nextUnit, request, aborted, status, result, merged,
                 mergedAborted, thunks, repository, tracker, queue, pubOpen,
                 pubInvoked, wasPending>>
  /\ UNCHANGED wvars

\* signer.sign resolves.
SignResolve(u) ==
  /\ pc[u] = "signing"
  /\ AfterSign(u)
  /\ UNCHANGED <<nextUnit, request, aborted, result, merged, mergedAborted,
                 thunks, tracker, queue>>
  /\ UNCHANGED wvars

\* signer.sign throws or rejects: fail(String(e.error || e)) and return.
SignReject(u, e) ==
  /\ pc[u] = "signing"
  /\ status' = [status EXCEPT ![u] = FailStatus(request[u].relays, e)]
  /\ pc' = [pc EXCEPT ![u] = "failed"]
  /\ UNCHANGED <<nextUnit, request, aborted, result, merged, mergedAborted,
                 thunks, repository, tracker, queue, pubOpen, pubInvoked,
                 wasPending>>
  /\ UNCHANGED wvars

\* await sleep(thunk.request.delay) returns.
DelayDone(u) ==
  /\ pc[u] = "delay"
  /\ CheckAndSend(u)
  /\ UNCHANGED <<nextUnit, request, aborted, result, merged, mergedAborted,
                 thunks, tracker, queue>>
  /\ UNCHANGED wvars

\* ------------------------------------------------- broadcaster notifications

\* What the broadcaster passes to the listeners of each notification, as the
\* handlers of processItem read them: (id, message, url) for Success and
\* Failure, (url) for Timeout and Aborted.
SuccessArgs(id, m, url) == <<id, m, url>>
FailureArgs(id, m, url) == <<id, m, url>>
TimeoutArgs(url) == <<url>>
AbortedArgs(url) == <<url>>

\* A Success handler that sets the mapping instead of updating it.
SuccessUpdateSet(s, args) == FromRelays({args[3]}, ThunkStatus(Success, args[2]))

\* pub.on(PublishEvent.Success, (id, message, url) => ...)
SuccessUpdate(s, args) == Assoc(s, args[3], ThunkStatus(Success, args[2]))

\* A Failure handler that takes its first argument for the url.
FailureUpdateKeyedById(s, args) == Assoc(s, args[1], ThunkStatus(Failure, args[2]))

\* pub.on(PublishEvent.Failure, (id, message, url) => ...)
FailureUpdate(s, args) == Assoc(s, args[3], ThunkStatus(Failure, args[2]))

\* pub.on(PublishEvent.Timeout, (url) => ...)
TimeoutUpdate(s, args) == Assoc(s, args[1], ThunkStatus(Timeout, TimedOutMsg))

\* pub.on(PublishEvent.Aborted, (url) => ...)
AbortedUpdate(s, args) == Assoc(s, args[1], ThunkStatus(Aborted, AbortedMsg))

\* A Complete handler resolving with the mapping as it was when sending began.
CompleteValueAtSend(u) == PendingStatus(request[u].relays)

\* pub.on(PublishEvent.Complete, () => thunk.result.resolve(get(thunk.status)))
CompleteValue(u) == status[u]

\* The broadcaster reports one outcome per endpoint it was given.
Notified(u, e) ==
  /\ pc[u] = "sent"
  /\ e \in pubOpen[u]
  /\ pubOpen' = [pubOpen EXCEPT ![u] = @ \ {e}]

OnSuccess(u, e, m) ==
  /\ Notified(u, e)
  /\ LET args == SuccessArgs(SendId(u), m, e) IN
       /\ tracker' = tracker \cup {<<args[1], args[3]>>}
       /\ status' = [status EXCEPT ![u] = SuccessUpdate(@, args)]
  /\ UNCHANGED <<nextUnit, request, pc, aborted, result, merged, mergedAborted,
                 thunks, repository, queue, pubInvoked, wasPending>>
  /\ UNCHANGED wvars

OnFailure(u, e, m) ==
  /\ Notified(u, e)
  /\ status' = [status EXCEPT ![u] = FailureUpdate(@, FailureArgs(SendId(u), m, e))]
  /\ UNCHANGED <<nextUnit, request, pc, aborted, result, merged, mergedAborted,
                 thunks, repository, tracker, queue, pubInvoked, wasPending>>
  /\ UNCHANGED wvars

\* Only a broadcaster given a timeout reports Timeout.
OnTimeout(u, e) ==
  /\ request[u].timeout
  /\ Notified(u, e)
  /\ status' = [status EXCEPT ![u] = TimeoutUpdate(@, TimeoutArgs(e))]
  /\ UNCHANGED <<nextUnit, request, pc, aborted, result, merged, mergedAborted,
                 thunks, repository, tracker, queue, pubInvoked, wasPending>>
  /\ UNCHANGED wvars

\* The broadcaster is constructed from {event, relays, context, timeout}: it
\* is not handed the unit's token, so an Aborted report is its own decision.
OnAborted(u, e) ==
  /\ Notified(u, e)
  /\ status' = [status EXCEPT ![u] = AbortedUpdate(@, AbortedArgs(e))]
  /\ UNCHANGED <<nextUnit, request, pc, aborted, result, merged, mergedAborted,
                 thunks, repository, tracker, queue, pubInvoked, wasPending>>
  /\ UNCHANGED wvars

\* The broadcaster reports Complete once every endpoint has had its outcome.
CompleteDue(u) == pc[u] = "sent" /\ pubOpen[u] = {}

OnComplete(u) ==
  /\ CompleteDue(u)
  /\ result' = [result EXCEPT ![u] = Resolved(CompleteValue(u))]
  /\ pc' = [pc EXCEPT ![u] = "done"]
  /\ UNCHANGED <<nextUnit, request, aborted, status, merged, mergedAborted,
                 thunks, repository, tracker, queue, pubOpen, pubInvoked,
                 wasPending>>
  /\ UNCHANGED wvars

\* ------------------------------------------------------------ mergeThunks

\* A severity order with Pending and Success exchanged.
SeverityOrderSuccessFirst == <<Aborted, Failure, Timeout, Success, Pending>>

\* [Aborted, Failure, Timeout, Pending, Success]
SeverityOrder == <<Aborted, Failure, Timeout, Pending, Success>>

\* s[url]
Lookup(s, url) == IF url \in DOMAIN s THEN s[url] ELSE Undefined

\* urlStatuses.find(s => s?.status === kind)
FindKind(urlStatuses, kind) ==
  LET hits == {k \in 1..Len(urlStatuses) : urlStatuses[k].status = kind} IN
    IF hits = {} THEN Undefined ELSE urlStatuses[Min(hits)]

\* SeverityOrder.map(kind => FindKind(urlStatuses, kind)).find(identity)
FirstBySeverity(urlStatuses) ==
  LET found == [k \in 1..Len(SeverityOrder) |-> FindKind(urlStatuses, SeverityOrder[k])]
      hits == {k \in 1..Len(found) : found[k] # Undefined}
  IN IF hits = {} THEN Undefined ELSE found[Min(hits)]

\* The derived store's callback, on the members' current mappings.
MergeStatuses(statuses) ==
  LET urls == UNION {DOMAIN statuses[k] : k \in 1..Len(statuses)}
      pick(url) == FirstBySeverity([k \in 1..Len(statuses) |-> Lookup(statuses[k], url)])
  IN [url \in {x \in urls : pick(x) # Undefined} |-> pick(url)]

\* get(mergedThunk.status)
MergedStatus(a) == MergeStatuses([k \in 1..Len(merged[a]) |-> status[merged[a][k]]])

\* Batches publishThunks is called with.
Batches == UNION {[1..n -> Requests] : n \in 1..MaxUnits}

Next ==
  \/ \E req \in Requests : PublishThunk(req)
  \/ \E reqs \in Batches : PublishThunks(reqs)
  \/ \E u \in Units : AbortThunk(u)
  \/ \E a \in Units : AbortMerged(a)
  \/ Dispatch
  \/ \E u \in Units : StartSigned(u)
  \/ \E u \in Units : StartNoSigner(u)
  \/ \E u \in Units : StartSign(u)
  \/ \E u \in Units : SignResolve(u)
  \/ \E u \in Units, e \in SignErrors : SignReject(u, e)
  \/ \E u \in Units : DelayDone(u)
  \/ \E u \in Units, e \in Endpoints, m \in OkMsgs : OnSuccess(u, e, m)
  \/ \E u \in Units, e \in Endpoints, m \in RejectMsgs : OnFailure(u, e, m)
  \/ \E u \in Units, e \in Endpoints : OnTimeout(u, e)
  \/ \E u \in Units, e \in Endpoints : OnAborted(u, e)
  \/ \E u \in Units : OnComplete(u)

\* ------------------------------------------------------ claims on thunk.ts

\* The status kind of endpoint e in unit u; "absent" while it has no entry.
Kind(u, e) == IF e \in DOMAIN status[u] THEN status[u][e].status ELSE "absent"

\* The unit's dispatch has returned and no notification is outstanding:
\* nothing the pipeline does will touch the unit again.
Quiescent(u) == pc[u] \in {"skipped", "failed", "stopped", "done"}

AllTerminal(u) == \A e \in request[u].relays : Kind(u, e) \in TerminalKinds

\* C1: every requested endpoint of an accepted request ends in one terminal
\* kind.  Stated on the states where the unit's dispatch is over: there every
\* requested endpoint holds a terminal kind.
C1_QuiescentUnitIsTerminal == \A u \in Units : Quiescent(u) => AllTerminal(u)

\* C2: publishMany([req1, req2]) with the aggregate's token signalled before
\* either unit is dispatched: once both units have been through dispatch, every
\* endpoint of both is Aborted.
C2_AbortedBatchEndsAborted ==
  \A a \in Units :
    (/\ Len(merged[a]) = 2
     /\ mergedAborted[a]
     /\ \A u \in MemberSet(a) : pc[u] = "skipped")
    => \A u \in MemberSet(a) : \A e \in request[u].relays : Kind(u, e) = Aborted

\* C3: every failure path of dispatch resolves the unit's future result: a
\* unit whose dispatch ended by a signing failure or a cancellation has its
\* result resolved.
C3_FailurePathsResolveResult ==
  \A u \in Units : pc[u] \in {"failed", "skipped", "stopped"} => result[u].resolved

\* C4: when the signing capability is missing or fails, every requested
\* endpoint is Failure with one and the same message, no endpoint was ever
\* Pending and the broadcaster was never invoked for the unit.
C4_SigningFailureIsGlobal ==
  \A u \in Units :
    pc[u] = "failed" =>
      /\ \E m \in {NoSignerMsg} \cup SignErrors :
           status[u] = [e \in request[u].relays |-> ThunkStatus(Failure, m)]
      /\ ~wasPending[u]
      /\ ~pubInvoked[u]
      /\ pubOpen[u] = {}

C4_Witness ==
  \E u \in Units :
    /\ pc[u] = "failed"
    /\ request[u].relays = {"A", "B"}
    /\ status[u]["A"].message \in SignErrors

\* C5 as stated: per (unit, endpoint) the kind only moves absent -> Pending ->
\* one terminal kind.
C5_OnlyThroughPending ==
  [][\A u \in Units, e \in Endpoints :
       \/ Kind(u, e)' = Kind(u, e)
       \/ Kind(u, e) = "absent" /\ Kind(u, e)' = Pending
       \/ Kind(u, e) = Pending /\ Kind(u, e)' \in TerminalKinds]_vars

\* C5 as amended: the kind moves absent -> Pending -> one terminal kind, or
\* absent -> Failure directly when signing is unavailable or fails; a terminal
\* kind never changes.
C5_StatusMonotone ==
  [][\A u \in Units, e \in Endpoints :
       \/ Kind(u, e)' = Kind(u, e)
       \/ Kind(u, e) = "absent" /\ Kind(u, e)' = Pending
       \/ Kind(u, e) = Pending /\ Kind(u, e)' \in TerminalKinds
       \/ /\ Kind(u, e) = "absent"
          /\ Kind(u, e)' = Failure
          /\ pc[u] \in {"start", "signing"}
          /\ pc'[u] = "failed"]_vars

C5_Witness ==
  \E a \in Units : \E u \in MemberSet(a) : \E e \in request[u].relays :
    /\ mergedAborted[a]
    /\ Kind(u, e) = Aborted
    /\ pc[u] = "done"

\* C6: once a unit's token is signalled after the broadcaster was invoked,
\* an endpoint that is still Pending can only become Aborted.
C6_OpenEndpointsBecomeAborted ==
  [][\A u \in Units, e \in Endpoints :
       (aborted[u] /\ pubInvoked[u] /\ Kind(u, e) = Pending)
         => Kind(u, e)' \in {Pending, Aborted}]_vars

\* C7: signalling an aggregate's token signals every member's token; an
\* aggregate's token is signalled by nothing but its own abort; and a step
\* that signals a unit's token without the aggregate's signals no other token.
C7_CancellationIsOneWay ==
  [][/\ \A a \in Units : \A u \in MemberSet(a) : mergedAborted'[a] => aborted'[u]
     /\ \A a \in Units : (~mergedAborted[a] /\ mergedAborted'[a]) => AbortMerged(a)
     /\ \A u \in Units :
          AbortThunk(u) =>
            /\ mergedAborted' = mergedAborted
            /\ \A v \in Units \ {u} : aborted'[v] = aborted[v]]_vars

C7_Witness ==
  \E a \in Units :
    /\ Len(merged[a]) = 2
    /\ aborted[merged[a][1]]
    /\ ~aborted[merged[a][2]]
    /\ ~mergedAborted[a]

\* Severity of a kind: Aborted > Failure > Timeout > Pending > Success.
Severity(kind) ==
  CASE kind = Aborted -> 5
    [] kind = Failure -> 4
    [] kind = Timeout -> 3
    [] kind = Pending -> 2
    [] kind = Success -> 1
    [] OTHER -> 0

\* C8: the merged view holds exactly the endpoints some member has a status
\* for, each with the status of the first member, in member order, among those
\* at the most severe kind present.
C8_MergedViewIsMostSevere ==
  \A a \in Units :
    LET n == Len(merged[a])
        has(e) == {k \in 1..n : e \in DOMAIN status[merged[a][k]]}
        top(e) == {k \in has(e) :
                     \A j \in has(e) :
                       Severity(Kind(merged[a][j], e)) <= Severity(Kind(merged[a][k], e))}
    IN /\ DOMAIN MergedStatus(a) = {e \in Endpoints : has(e) # {}}
       /\ \A e \in DOMAIN MergedStatus(a) :
            MergedStatus(a)[e] = status[merged[a][Min(top(e))]][e]

C8_Witness ==
  \E a \in Units :
    /\ Len(merged[a]) = 2
    /\ Kind(merged[a][1], "A") = Success
    /\ Kind(merged[a][2], "A") = Pending
    /\ Kind(merged[a][1], "B") = Timeout
    /\ Kind(merged[a][2], "B") = Failure
    /\ MergedStatus(a)["A"].status = Pending
    /\ MergedStatus(a)["B"].status = Failure

\* C9: a unit's result is resolved only when every requested endpoint is in a
\* terminal kind, and with the status mapping of that moment.
C9_ResolvedOnlyWhenTerminal ==
  \A u \in Units :
    result[u].resolved =>
      /\ AllTerminal(u)
      /\ DOMAIN result[u].value = request[u].relays
      /\ result[u].value = status[u]

C9_Witness ==
  \E u \in Units :
    /\ request[u] = Request({"A", "B"}, FALSE, TRUE, "unsigned")
    /\ result[u].resolved
    /\ result[u].value["A"].status = Success
    /\ result[u].value["B"].status = Timeout

\* ---------------------------------------------------------------- Worker.ts

\* Items a behaviour may push, and handlers it may register.
MaxItems == 2
MaxHandlers == 2

Items == 1..MaxItems

\* for (let i = 0; i < 50; i++)
BatchCap == 50

\* const ANY = Symbol("worker/ANY")
ANY == "worker/ANY"

\* The keys opts.getKey yields, and the key of each item.
Keys == {"k1", "k2"}
KeyOf(x) == IF x % 2 = 1 THEN "k1" ELSE "k2"

HandlerKeys == Keys \cup {ANY}

\* this.handlers.get(k) || []
HandlersForReversed(k) == [j \in 1..Len(handlers[k]) |-> handlers[k][Len(handlers[k]) + 1 - j]]
HandlersFor(k) == handlers[k]

\* i < 50, the for loop's condition
InLoopOffByOne(k) == k <= BatchCap
InLoop(k) == k < BatchCap

\* splice(0, 1) then push(message): the deferred head goes to the tail
RequeueKeepHead(buf) == Append(buf, Head(buf))
Requeue(buf) == Append(Tail(buf), Head(buf))

\* clearTimeout(this.timeout), on whether the timer is pending
ClearTimeoutNoop(armed) == armed
ClearTimeout(armed) == FALSE

Registered == Len(handlers[ANY]) + Len(handlers["k1"]) + Len(handlers["k2"])

Range(q) == {q[k] : k \in 1..Len(q)}

WInit ==
  /\ buffer = << >>
  /\ handlers = [k \in HandlerKeys |-> << >>]
  /\ timeout = FALSE
  /\ timerArmed = FALSE
  /\ wpc = "idle"
  /\ i = 0
  /\ message = 0
  /\ stage = "any"
  /\ todo = << >>
  /\ deferring = {}
  /\ nextItem = 1
  /\ deferredNow = {}
  /\ handledNow = {}
  /\ clearedNow = FALSE
  /\ removedNow = 0
  /\ calls = << >>
  /\ returned = 0
  /\ anySnap = << >>
  /\ keySnap = << >>
  /\ taken = [x \in Items |-> 0]
  /\ dropped = {}
  /\ cancelled = FALSE

\* #enqueueWork, on the buffer buf and the timeout field t
EnqueueWork(buf, t) ==
  IF ~t /\ Len(buf) > 0
    THEN timeout' = TRUE /\ timerArmed' = TRUE /\ cancelled' = FALSE
    ELSE timeout' = t /\ UNCHANGED <<timerArmed, cancelled>>

\* push(message)
Push ==
  /\ wpc # "loop"
  /\ nextItem <= MaxItems
  /\ buffer' = Append(buffer, nextItem)
  /\ nextItem' = nextItem + 1
  /\ EnqueueWork(buffer', timeout)
  /\ UNCHANGED <<handlers, wpc, i, message, stage, todo, deferring, getKey,
                 deferredNow, handledNow, clearedNow>>
  /\ UNCHANGED hvars
  /\ UNCHANGED tvars

\* addHandler(k, handler)
AddHandler(k) ==
  /\ wpc # "loop"
  /\ Registered < MaxHandlers
  /\ handlers' = [handlers EXCEPT ![k] = Append(@, Registered + 1)]
  /\ UNCHANGED <<buffer, timeout, timerArmed, wpc, i, message, stage, todo,
                 deferring, getKey, nextItem, deferredNow, handledNow, clearedNow>>
  /\ UNCHANGED hvars
  /\ UNCHANGED cancelled
  /\ UNCHANGED tvars

\* addGlobalHandler(handler)
AddGlobalHandler == AddHandler(ANY)

\* clear()
Clear ==
  /\ wpc # "loop"
  /\ buffer' = << >>
  /\ clearedNow' = (wpc # "idle")
  /\ dropped' = dropped \cup Range(buffer)
  /\ UNCHANGED <<removedNow, calls, returned, anySnap, keySnap, taken>>
  /\ UNCHANGED <<handlers, timeout, timerArmed, wpc, i, message, stage, todo,
                 deferring, getKey, nextItem, deferredNow, handledNow>>
  /\ UNCHANGED cancelled
  /\ UNCHANGED tvars

\* stop(): clearTimeout(this.timeout); the field keeps the timer's id.
Stop ==
  /\ wpc # "loop"
  /\ timerArmed' = ClearTimeout(timerArmed)
  /\ cancelled' = (cancelled \/ timerArmed)
  /\ UNCHANGED <<buffer, handlers, timeout, wpc, i, message, stage, todo,
                 deferring, getKey, nextItem, deferredNow, handledNow, clearedNow>>
  /\ UNCHANGED hvars
  /\ UNCHANGED tvars

\* opts.shouldDefer is the caller's function over the caller's state: what
\* it holds for changes when other code runs, that is between cycles and
\* while #doWork awaits a handler.
SetDefer(S) ==
  /\ wpc # "loop"
  /\ S # deferring
  /\ deferring' = S
  /\ UNCHANGED <<buffer, handlers, timeout, timerArmed, wpc, i, message, stage,
                 todo, nextItem, getKey, deferredNow, handledNow, clearedNow>>
  /\ UNCHANGED hvars
  /\ UNCHANGED cancelled
  /\ UNCHANGED tvars

\* The timer set by #enqueueWork fires: #doWork starts.
TimerFire ==
  /\ timerArmed
  /\ wpc = "idle"
  /\ timerArmed' = FALSE
  /\ wpc' = "loop"
  /\ i' = 0
  /\ UNCHANGED <<buffer, handlers, timeout, message, stage, todo, deferring,
                 getKey, nextItem, deferredNow, handledNow, clearedNow>>
  /\ UNCHANGED hvars
  /\ UNCHANGED cancelled
  /\ UNCHANGED tvars

\* Walk the handler list hs of stage stg for item x: call its first handler
\* and await it; with the ANY list done go on to the key's list; with both
\* done the iteration is over.
Walk(x, stg, hs, cs) ==
  LET ks == IF stg = "any" /\ getKey THEN HandlersFor(KeyOf(x)) ELSE << >> IN
    IF hs # << >>
      THEN /\ wpc' = "await"
           /\ message' = x
           /\ stage' = stg
           /\ todo' = Tail(hs)
           /\ calls' = Append(cs, Head(hs))
           /\ handledNow' = handledNow \cup {x}
           /\ i' = i
      ELSE IF ks # << >>
        THEN /\ wpc' = "await"
             /\ message' = x
             /\ stage' = "key"
             /\ todo' = Tail(ks)
             /\ calls' = Append(cs, Head(ks))
             /\ handledNow' = handledNow \cup {x}
             /\ i' = i
        ELSE /\ wpc' = "loop"
             /\ message' = 0
             /\ stage' = "any"
             /\ todo' = << >>
             /\ calls' = cs
             /\ handledNow' = handledNow
             /\ i' = i + 1

\* The loop's exit: this.timeout = undefined; this.#enqueueWork()
EndCycle ==
  /\ wpc = "loop"
  /\ ~InLoop(i) \/ Len(buffer) = 0
  /\ wpc' = "idle"
  /\ i' = 0
  /\ EnqueueWork(buffer, FALSE)
  /\ deferredNow' = {}
  /\ handledNow' = {}
  /\ clearedNow' = FALSE
  /\ removedNow' = 0
  /\ calls' = << >>
  /\ returned' = 0
  /\ anySnap' = << >>
  /\ keySnap' = << >>
  /\ UNCHANGED <<buffer, handlers, message, stage, todo, deferring, getKey, nextItem,
                 taken, dropped>>
  /\ UNCHANGED tvars

\* One iteration that defers: the head goes to the tail.
Defer ==
  /\ wpc = "loop"
  /\ InLoop(i)
  /\ Len(buffer) > 0
  /\ Head(buffer) \in deferring
  /\ buffer' = Requeue(buffer)
  /\ deferredNow' = deferredNow \cup {Head(buffer)}
  /\ i' = i + 1
  /\ removedNow' = removedNow + 1
  /\ UNCHANGED <<calls, returned, anySnap, keySnap, taken, dropped>>
  /\ UNCHANGED <<handlers, timeout, timerArmed, wpc, message, stage, todo,
                 deferring, getKey, nextItem, handledNow, clearedNow>>
  /\ UNCHANGED cancelled
  /\ UNCHANGED tvars

\* One iteration that does not defer: the head is taken and handed to the
\* ANY handlers, up to the first await.
Take ==
  /\ wpc = "loop"
  /\ InLoop(i)
  /\ Len(buffer) > 0
  /\ Head(buffer) \notin deferring
  /\ buffer' = Tail(buffer)
  /\ Walk(Head(buffer), "any", HandlersFor(ANY), << >>)
  /\ removedNow' = removedNow + 1
  /\ returned' = 0
  /\ anySnap' = handlers[ANY]
  /\ keySnap' = handlers[KeyOf(Head(buffer))]
  /\ taken' = [taken EXCEPT ![Head(buffer)] = @ + 1]
  /\ UNCHANGED dropped
  /\ UNCHANGED <<handlers, timeout, timerArmed, deferring, getKey, nextItem,
                 deferredNow, clearedNow>>
  /\ UNCHANGED cancelled
  /\ UNCHANGED tvars

\* An awaited handler returns: the next handler is called, or the iteration ends.
HandlerReturn ==
  /\ wpc = "await"
  /\ Walk(message, stage, todo, calls)
  /\ returned' = returned + 1
  /\ UNCHANGED <<removedNow, anySnap, keySnap, taken, dropped>>
  /\ UNCHANGED <<buffer, handlers, timeout, timerArmed, deferring, getKey,
                 nextItem, deferredNow, clearedNow>>
  /\ UNCHANGED cancelled
  /\ UNCHANGED tvars

WNext ==
  \/ Push
  \/ \E k \in Keys : AddHandler(k)
  \/ AddGlobalHandler
  \/ Clear
  \/ Stop
  \/ \E S \in SUBSET Items : SetDefer(S)
  \/ TimerFire
  \/ EndCycle
  \/ Defer
  \/ Take
  \/ HandlerReturn

\* --------------------------------------------------------- specifications

Init == TInit /\ WInit /\ getKey = TRUE

Spec == Init /\ [][Next]_vars

\* The scheduler alone, constructed with or without opts.getKey.
InitWorker == TInit /\ WInit /\ getKey \in BOOLEAN

SpecWorker == InitWorker /\ [][WNext]_vars

\* ------------------------------------------------------ claims on Worker.ts

\* C10: an item deferred in a cycle is passed to no handler during that cycle
\* and is in the queue when the cycle ends (unless the queue was cleared).
C10_DeferredWaitsForNextCycle ==
  [][/\ deferredNow' \cap handledNow' = {}
     /\ (wpc = "loop" /\ wpc' = "idle" /\ ~clearedNow) => deferredNow \subseteq Range(buffer')]_vars

\* C11: when push(item) returns, item is the last element of the queue and a
\* processing cycle is scheduled (its timer is armed) or in progress.
C11_PushSchedulesACycle ==
  [][Push => /\ buffer'[Len(buffer')] = nextItem
             /\ timerArmed' \/ wpc' # "idle"]_vars

\* C12: a cycle removes at most 50 items from the head of the queue, deferred
\* ones included, so it passes at most 50 items to handlers, also when
\* handlers push during the cycle; what is still queued when the cycle ends
\* stays queued, with the next cycle scheduled.
C12_CycleRemovesAtMostCap ==
  [][/\ removedNow' <= BatchCap
     /\ Cardinality(handledNow') <= removedNow'
     /\ (wpc = "loop" /\ wpc' = "idle") =>
          /\ buffer' = buffer
          /\ buffer # << >> => timerArmed']_vars

\* The cap is reached with items still in the queue.
C12_Witness ==
  /\ wpc = "loop"
  /\ removedNow = BatchCap
  /\ buffer # << >>

IsPrefix(a, b) == Len(a) <= Len(b) /\ \A k \in 1..Len(a) : a[k] = b[k]

\* The handlers registered under the key of x, none without opts.getKey.
KeyedFor(hm, x) == IF getKey THEN hm[KeyOf(x)] ELSE << >>

\* C18: a taken item goes to the global handlers in registration order, then
\* (with getKey) to its key's handlers in registration order; a handler is
\* called only after the one before it returned, and the next item is taken
\* only after the last one returned.
C18_HandlersInRegistrationOrder ==
  [][/\ wpc' = "await" =>
          /\ IsPrefix(calls', anySnap' \o KeyedFor(handlers', message'))
          /\ Len(calls') = returned' + 1
     /\ wpc' # "await" => Len(calls') = returned'
     /\ (wpc = "await" /\ wpc' = "loop") =>
          \E n \in 0..Len(KeyedFor(handlers, message)) :
            /\ n >= Len(KeyedFor([k \in HandlerKeys |-> keySnap], message))
            /\ calls' = anySnap \o SubSeq(KeyedFor(handlers, message), 1, n)
     /\ taken' # taken =>
          /\ wpc = "loop"
          /\ Len(calls) = returned
          /\ wpc' = "loop" =>
               handlers[ANY] = << >> /\ KeyedFor(handlers, Head(buffer)) = << >>]_vars

\* An item has gone to a global handler and then to a handler of its key.
C18_Witness ==
  /\ wpc = "loop"
  /\ returned = 2
  /\ handlers[ANY] # << >>
  /\ \E k \in Keys : handlers[k] # << >> /\ calls = handlers[ANY] \o handlers[k]

\* C19: stop() leaves the queue and the handlers as they are, and a cycle it
\* cancelled is neither pending nor running afterwards; clear() empties the
\* queue and leaves the handlers as they are.
C19_StopAndClearFrames ==
  [][/\ Stop => buffer' = buffer /\ handlers' = handlers
     /\ Clear => buffer' = << >> /\ handlers' = handlers
     /\ cancelled' => ~timerArmed' /\ wpc' = "idle"]_vars

\* A pending cycle was cancelled with items queued and a handler registered,
\* after an earlier clear() had emptied the queue.
C19_Witness ==
  /\ cancelled
  /\ buffer # << >>
  /\ dropped # {}
  /\ Registered > 0

\* How many times x occurs in the queue q.
Occurrences(q, x) == Cardinality({k \in 1..Len(q) : q[k] = x})

\* C20: every pushed item is in the queue once or was taken for its handlers
\* once (or was removed by clear()), never both and never twice, also when
\* handlers push during a cycle and when items are deferred; and a cycle is
\* never scheduled while one is running.
C20_NoLossNoDuplication ==
  /\ \A x \in Items :
       Occurrences(buffer, x) + taken[x] + (IF x \in dropped THEN 1 ELSE 0)
         = (IF x < nextItem THEN 1 ELSE 0)
  /\ ~(timerArmed /\ wpc # "idle")

\* No clear(): one item was deferred to the tail and is queued, the other
\* has been taken by the same cycle and is with a handler.
C20_Witness ==
  /\ dropped = {}
  /\ wpc = "await"
  /\ message = 2
  /\ taken[2] = 1
  /\ buffer = <<1>>
  /\ 1 \in deferredNow

\* ------------------------------------------- claims on the thunk registry

\* C13: when publishThunks returns, the registry holds the aggregate it
\* returns under the event id of every member unit; when publishThunk
\* returns, it holds the unit under the unit's event id.
C13_RegistryAfterPublish ==
  [][nextUnit' # nextUnit =>
       LET new == nextUnit..(nextUnit' - 1) IN
         IF merged'[nextUnit] # << >>
           THEN /\ {merged'[nextUnit][k] : k \in 1..Len(merged'[nextUnit])} = new
                /\ \A u \in new : thunks'[EventId(u)] = <<"merged", nextUnit>>
           ELSE /\ new = {nextUnit}
                /\ thunks'[EventId(nextUnit)] = <<"thunk", nextUnit>>]_vars

\* A batch of two is registered: both ids lead to the one aggregate.
C13_Witness ==
  \E a \in Units :
    /\ Len(merged[a]) = 2
    /\ thunks[EventId(merged[a][1])] = <<"merged", a>>
    /\ thunks[EventId(merged[a][2])] = <<"merged", a>>

\* C14: abortThunk(u) signals u's token, removes the registry key u's event
\* id and removes u's event from the store; every other registry key, every
\* other stored event, every other unit's token and every aggregate's token
\* stay as they were.
C14_AbortThunkFrame ==
  [][\A u \in Units : AbortThunk(u) =>
       /\ aborted'[u]
       /\ thunks'[EventId(u)] = << >>
       /\ repository'[EventId(u)] = "none"
       /\ \A id \in Ids \ {EventId(u)} :
            thunks'[id] = thunks[id] /\ repository'[id] = repository[id]
       /\ \A v \in Units \ {u} : aborted'[v] = aborted[v]
       /\ mergedAborted' = mergedAborted]_vars

\* One member of a batch of two was aborted: its key and event are gone, the
\* other member's key still leads to the aggregate and its event is stored.
C14_Witness ==
  \E a \in Units :
    /\ Len(merged[a]) = 2
    /\ aborted[merged[a][1]] /\ ~aborted[merged[a][2]]
    /\ thunks[EventId(merged[a][1])] = << >>
    /\ repository[EventId(merged[a][1])] = "none"
    /\ thunks[EventId(merged[a][2])] = <<"merged", a>>
    /\ repository[EventId(merged[a][2])] # "none"

\* ------------------------------------------ claims on dispatch (processItem)

\* Where a unit's dispatch stands before the check that follows signing and
\* delay, and where it ends without having sent.
BeforeCheck == {"queued", "start", "signing", "delay"}
EndedUnsent == {"skipped", "stopped", "failed"}

\* C15: a unit whose token is signalled while it is queued, signing or
\* waiting out its delay, that is before the check that follows signing and
\* delay, never has an endpoint set to Pending and never has a broadcaster
\* constructed for it.
C15_AbortedBeforeCheckNeverSends ==
  [][\A u \in Units :
       /\ pc'[u] \in BeforeCheck => ~pubInvoked'[u] /\ ~wasPending'[u]
       /\ (aborted[u] /\ pc[u] \in BeforeCheck \cup EndedUnsent) =>
            /\ pc'[u] \in BeforeCheck \cup EndedUnsent
            /\ ~pubInvoked'[u]
            /\ ~wasPending'[u]
            /\ \A e \in DOMAIN status'[u] : status'[u][e].status # Pending]_vars

\* A unit cancelled while it was signing or waiting out its delay stopped at
\* the check: no status, no broadcaster.
C15_Witness ==
  \E u \in Units :
    /\ pc[u] = "stopped"
    /\ NeedsSigning(u)
    /\ request[u].delay
    /\ ~pubInvoked[u]
    /\ status[u] = EmptyStatus

C17_ContinuationHoldsNoSlot ==
  /\ queue # << >> => ENABLED Dispatch
  /\ \A v \in Units :
       /\ pc[v] = "start" => ENABLED (StartSigned(v) \/ StartNoSigner(v) \/ StartSign(v))
       /\ pc[v] = "signing" => ENABLED SignResolve(v)
       /\ pc[v] = "delay" => ENABLED DelayDone(v)
       /\ (pc[v] = "sent" /\ pubOpen[v] # {}) =>
            \E e \in pubOpen[v] : ENABLED OnAborted(v, e)
       /\ CompleteDue(v) => ENABLED OnComplete(v)

\* A unit published after one whose signer has not answered has been
\* dispatched, was Pending, and has its result resolved.
C17_Witness ==
  \E u, v \in Units :
    /\ u < v
    /\ pc[u] = "signing"
    /\ pc[v] = "done"
    /\ wasPending[v]
    /\ result[v].resolved

====
